---- MODULE Spec2Model ----
(***************************************************************************)
(* Stonkbot: the per-user weekly turnip ledger (stonkbot/models.py), the   *)
(* shelve-backed store and the cross-island aggregation (stonkbot/db.py).  *)
(*                                                                         *)
(* Time is counted in ticks since Sunday 2020-03-15 00:00 (system local).  *)
(* A day has TicksPerDay ticks, so midnights and instants that are not     *)
(* midnights both occur.  Timestamps are absolute instants; a zone only    *)
(* moves the wall clock the week boundary is computed on.                  *)
(*                                                                         *)
(* Modelling assumptions about the libraries the program calls:            *)
(*   - tz.gettz resolves the empty zone name to no zone (db.log's          *)
(*     `if not data.timezone` guard relies on it), and datetime            *)
(*     comparisons are comparisons of instants;                            *)
(*   - shelve stores a pickled copy on `shelf[key] = data` and returns a   *)
(*     fresh copy on `shelf.get(key)`;                                     *)
(*   - the turnips pattern-model provider is replaced by a small fixed     *)
(*     catalogue of candidate models (Catalogue).                          *)
(*                                                                         *)
(* Specifications: Spec (one user: log, set_timezone, rename), SpecTown    *)
(* (two users logging), SpecBoard (two users and all_stats), SpecLoop (the *)
(* command handlers of the event loop), SpecForecast (predictions over     *)
(* every small set of candidate models) and SpecInfer                      *)
(* (datetime_to_timeperiod over every local weekday and hour).             *)
(***************************************************************************)
EXTENDS Integers, Sequences, FiniteSets, TLC

VARIABLES shelf, default_record, now, last, handlers

vars == <<shelf, default_record, now, last, handlers>>

-----------------------------------------------------------------------------
(* Bounds of the model *)

\* ticks per day: 2 makes every tick a midnight or a noon
TicksPerDay == 2
\* requests arrive within Near ticks of a weekly boundary
Near == 1
\* the clock stops Near ticks after the boundary that opens week MaxWeek
MaxWeek == 2
\* the largest number of candidate models of one pattern
MaxCount == 5
\* the number of log commands the event loop receives
MaxRequests == 3

(* Program constants *)

DaysPerWeek == 7
\* datetime(2020, 3, 20), a Friday: five days after the epoch Sunday
DefaultUpdatedDay == 5
\* date.min, a day before every day of the model
MinDate == -1
\* number of TimePeriod members
NumPeriods == 14
Sunday_AM == 0
Monday_AM == 2
\* contributors all_stats prints for a slot of today, and for a later slot
TopToday == 5
TopRest == 3

WeekTicks == DaysPerWeek * TicksPerDay
\* the process starts on the last tick of the day after the default timestamp
StartNow == (DefaultUpdatedDay + 1) * TicksPerDay + (TicksPerDay - 1)
MaxNow == MaxWeek * WeekTicks + Near

NearBoundary(t) ==
  LET r == t % WeekTicks IN r <= Near \/ r >= WeekTicks - Near

Instants == {t \in StartNow .. MaxNow : NearBoundary(t)}

-----------------------------------------------------------------------------
(* Inputs of the requests *)

Keys == {"1001", "2002"}
\* the order in which shelf.values() yields the ledgers
KeyOrder == <<"1001", "2002">>
\* `time` left out of the request
NoTime == ""
\* Spec: one user, every kind of price, time period and zone name
SoloKeys == {"1001"}
Prices == {-5, 0, 110}
TimeInputs == {"Monday_AM", "monday_pm", "Someday", NoTime}
ZoneInputs == {"Etc/GMT-12", "Mars/Phobos"}
IslandNames == {"Nook"}
\* SpecForecast: the candidate models handed to predictions, as the number
\* of models of each pattern (0 .. MaxCount) and the order in which the
\* patterns first occur in the provider's list
ModelOrders ==
  {<<"triple", "spike", "decay", "bump">>, <<"bump", "decay", "spike", "triple">>}
\* SpecLoop: one user sends MaxRequests log commands
LoopKey == "1001"
LoopPrices == {0, 110}
LoopTimes == {"Monday_AM", "monday_pm"}
\* SpecInfer: every local day of the week and hour of a message
IsoWeekdays == 1 .. DaysPerWeek
Hours == 0 .. 23
\* SpecTown: two users, each logging Monday morning prices
TownPrices == {90, 110}
TownTimes == {"Monday_AM"}
\* SpecBoard: two users and the town-wide board, around one weekly boundary
BoardPrices == {-5, 90, 110}
BoardStart == MaxWeek * WeekTicks - Near
\* when the message of a request was created (UTC)
CreatedAts == {[isoweekday |-> 1, hour |-> 9], [isoweekday |-> 7, hour |-> 13]}

NoLedger == [none |-> TRUE]

-----------------------------------------------------------------------------
(* turnips.ttime.TimePeriod *)

TimePeriodNames ==
  <<"Sunday_AM", "Sunday_PM", "Monday_AM", "Monday_PM", "Tuesday_AM",
    "Tuesday_PM", "Wednesday_AM", "Wednesday_PM", "Thursday_AM",
    "Thursday_PM", "Friday_AM", "Friday_PM", "Saturday_AM", "Saturday_PM">>

TimePeriods == 0 .. (NumPeriods - 1)

\* TimePeriod(i).name and TimePeriod[name].value
PeriodName(i) == TimePeriodNames[i + 1]
PeriodValues ==
  [name \in {PeriodName(i) : i \in TimePeriods} |->
     CHOOSE i \in TimePeriods : PeriodName(i) = name]
PeriodValue(name) == PeriodValues[name]

\* the spellings TimePeriod.normalize accepts for the inputs of the model
Spellings ==
  [n \in {"Monday_AM", "monday_am"} |-> 2] @@
  [n \in {"Monday_PM", "monday_pm"} |-> 3]

\* TimePeriod.normalize: the member, or -1 for KeyError
normalize(time) ==
  IF time \in DOMAIN Spellings THEN Spellings[time] ELSE -1

-----------------------------------------------------------------------------
(* datetime and dateutil *)

\* tz.gettz(name): the zone's offset from the system zone in ticks, or
\* NoZone when the name does not resolve
NoZone == [none |-> TRUE]
ZoneOffsets == [n \in {"Etc/GMT-12"} |-> 1]
gettz(name) ==
  IF name \in DOMAIN ZoneOffsets THEN [offset |-> ZoneOffsets[name]] ELSE NoZone

UtcOffset(zone) == IF zone = NoZone THEN 0 ELSE zone.offset

\* a datetime: its wall clock and the offset of its zone from the system zone
\* (a datetime without a zone is on the system's wall clock)
DateTime(local, zone) == [local |-> local, utcoffset |-> UtcOffset(zone)]

\* the instant a datetime denotes: what datetime comparisons compare
Instant(dt) == dt.local - dt.utcoffset

\* datetime.now(tz=zone) at instant t
datetime_now(t, zone) == DateTime(t + UtcOffset(zone), zone)

\* dt.astimezone(zone): the same instant on the wall clock of the zone
dt_astimezone(dt, zone) == DateTime(Instant(dt) + UtcOffset(zone), zone)

\* dt.replace(hour=0, minute=0, second=0, microsecond=0)
Midnight(dt) == [dt EXCEPT !.local = dt.local - (dt.local % TicksPerDay)]

\* dt - timedelta(days=n)
MinusDays(dt, n) == [dt EXCEPT !.local = dt.local - n * TicksPerDay]

\* dt.isoweekday(): Monday = 1 .. Sunday = 7
isoweekday(dt) ==
  LET wd == (dt.local \div TicksPerDay) % DaysPerWeek
  IN IF wd = 0 THEN 7 ELSE wd

\* date.today()
today(t) == t \div TicksPerDay

-----------------------------------------------------------------------------
(* Record *)

DefaultRecord == [price |-> 0, date |-> MinDate, is_am |-> FALSE]

Record_set_price(rec, price, is_am, t) ==
  [price |-> price, date |-> today(t), is_am |-> is_am]

-----------------------------------------------------------------------------
(* The pattern-model provider (turnips.meta / turnips.multi) *)

EmptyMap == [s \in {} |-> 0]

ForecastPeriods == Monday_AM .. (NumPeriods - 1)

\* a candidate model: its pattern and the prices it allows in each period;
\* the bump model leaves one price for the last period of the week
Range(lo, hi) == lo .. hi
Catalogue ==
  { [model_type |-> "decay", prices |-> [s \in ForecastPeriods |-> Range(89, 90)]],
    [model_type |-> "spike",
     prices |-> [s \in ForecastPeriods |->
                   IF s % 2 = 0 THEN Range(90, 91) ELSE Range(110, 111)]],
    [model_type |-> "bump",
     prices |-> [s \in ForecastPeriods |->
                   IF s = NumPeriods - 1 THEN Range(110, 110) ELSE Range(109, 110)]] }

\* BumpModels(): only the bump models
BumpModels == {m \in Catalogue : m.model_type = "bump"}

\* MetaModel.blank(base): every model of the catalogue
MetaModel_blank(base) == Catalogue

\* fix_price applied to every entry of fixed: the models that allow them
fix_prices(pool, fixed) ==
  {m \in pool : \A s \in DOMAIN fixed : fixed[s] \in m.prices[s]}

\* MultiModel.histogram(): period -> price -> number of models
histogram(ms, fixed) ==
  IF ms = {} THEN EmptyMap
  ELSE [name \in {PeriodName(s) : s \in ForecastPeriods} |->
          LET s == PeriodValue(name)
              keys == IF s \in DOMAIN fixed THEN {fixed[s]}
                      ELSE UNION {m.prices[s] : m \in ms}
          IN [p \in keys |->
                Cardinality({m \in ms : s \in DOMAIN fixed \/ p \in m.prices[s]})]]

-----------------------------------------------------------------------------
(* WeekData *)

WeekData(name, record) ==
  [name |-> name, timeline |-> EmptyMap, initial_week |-> FALSE,
   previous_week |-> "unknown",
   updated |-> DateTime(DefaultUpdatedDay * TicksPerDay, NoZone),
   record |-> record, tz_name |-> ""]

timezone(d) == gettz(d.tz_name)

\* the fixed prices handed to the provider: Monday_AM and later
fixed_prices(d) ==
  [s \in {x \in DOMAIN d.timeline : x >= Monday_AM} |-> d.timeline[s]]

models(d) ==
  LET base == IF Sunday_AM \in DOMAIN d.timeline THEN d.timeline[Sunday_AM] ELSE 0
      pool == IF d.initial_week THEN BumpModels ELSE MetaModel_blank(base)
  IN fix_prices(pool, fixed_prices(d))

current_pattern(d) ==
  LET model_counter == {m.model_type : m \in models(d)}
  IN IF Cardinality(model_counter) = 1
       THEN CHOOSE p \in model_counter : TRUE
       ELSE "unknown"

is_current_week(d, t) ==
  LET now_ == datetime_now(t, timezone(d))
      sunday == MinusDays(Midnight(now_), isoweekday(now_) % DaysPerWeek)
  IN Instant(d.updated) > Instant(sunday)

is_last_week(d, t) ==
  LET midnight == Midnight(datetime_now(t, timezone(d)))
      sunday == MinusDays(midnight, isoweekday(midnight) % DaysPerWeek)
      last_sunday == MinusDays(midnight, (isoweekday(midnight) % DaysPerWeek) + 7)
  IN Instant(sunday) > Instant(d.updated) /\ Instant(d.updated) > Instant(last_sunday)

Put(f, k, v) == [x \in (DOMAIN f) \cup {k} |-> IF x = k THEN v ELSE f[x]]
Del(f, k) == [x \in (DOMAIN f) \ {k} |-> f[x]]

\* rollover with the timeline cleared before the pattern is read
rollover_clear_first(d, t) ==
  IF ~is_current_week(d, t)
    THEN LET d1 == [d EXCEPT !.timeline = EmptyMap]
         IN IF is_last_week(d, t)
              THEN [d1 EXCEPT !.previous_week = current_pattern(d1),
                              !.initial_week = FALSE]
              ELSE d1
    ELSE d

\* rollover with the pattern snapshot taken whenever the week is over
rollover_always_snapshot(d, t) ==
  IF ~is_current_week(d, t)
    THEN [d EXCEPT !.previous_week = current_pattern(d),
                   !.initial_week = FALSE,
                   !.timeline = EmptyMap]
    ELSE d

\* the rollover at the head of set_price
rollover(d, t) ==
  IF ~is_current_week(d, t)
    THEN LET d1 == IF is_last_week(d, t)
                     THEN [d EXCEPT !.previous_week = current_pattern(d),
                                    !.initial_week = FALSE]
                     ELSE d
         IN [d1 EXCEPT !.timeline = EmptyMap]
    ELSE d

set_price(d, price, time, t) ==
  LET d1 == rollover(d, t)
      d2 == IF price # 0
              THEN LET d2a == [d1 EXCEPT !.timeline = Put(@, time, price)]
                   IN IF price > d1.record.price
                        THEN [d2a EXCEPT !.record =
                                Record_set_price(@, price, time % 2 = 1, t)]
                        ELSE d2a
              ELSE IF time \in DOMAIN d1.timeline
                     THEN [d1 EXCEPT !.timeline = Del(@, time)]
                     ELSE d1
  IN [d2 EXCEPT !.updated = datetime_now(t, timezone(d))]

\* set_tz with `updated` relabelled (replace(tzinfo=...)): the wall clock is
\* kept and the instant moves
set_tz_keeps_wall_clock(d, zone_name) ==
  IF gettz(zone_name) # NoZone
    THEN [d EXCEPT !.tz_name = zone_name,
                   !.updated = DateTime(d.updated.local, gettz(zone_name))]
    ELSE d

\* set_tz: the ledger afterwards; astimezone keeps the instant of `updated`
set_tz(d, zone_name) ==
  IF gettz(zone_name) # NoZone
    THEN [d EXCEPT !.tz_name = zone_name,
                   !.updated = dt_astimezone(d.updated, gettz(zone_name))]
    ELSE d

\* which branch of the rollover a set_price at instant t takes
rollover_kind(d, t) ==
  IF is_current_week(d, t) THEN "none"
  ELSE IF is_last_week(d, t) THEN "last_week" ELSE "older"

-----------------------------------------------------------------------------
(* WeekData.predictions *)

\* turnips.model.ModelEnum: the values of the known patterns
ModelNames == <<"triple", "spike", "decay", "bump">>
ModelEnum == [name \in {"triple", "spike", "decay", "bump"} |->
                (CHOOSE i \in DOMAIN ModelNames : ModelNames[i] = name) - 1]

weights ==
  << <<20, 30, 15, 35>>,
     <<50, 5, 20, 25>>,
     <<25, 45, 5, 25>>,
     <<45, 25, 15, 15>> >>

expected_patterns == <<56, 7, 1, 8>>

\* the probabilities are fractions; all are kept over this denominator
Denominator ==
  expected_patterns[1] * expected_patterns[2] * expected_patterns[3] *
  expected_patterns[4]

\* Counter.most_common(): descending by count, patterns with equal counts
\* in the order in which they were first counted
RECURSIVE most_common(_)
most_common(counter) ==
  IF counter = <<>> THEN <<>>
  ELSE LET x == Head(counter)
           rest == most_common(Tail(counter))
       IN SelectSeq(rest, LAMBDA c : c[2] > x[2]) \o <<x>> \o
          SelectSeq(rest, LAMBDA c : c[2] <= x[2])

\* the share of a pattern without the division by expected_patterns
probability_of_count(count, model_value, previous_week) ==
  count * weights[ModelEnum[previous_week] + 1][model_value + 1] * Denominator

\* count / expected_patterns[model_value] * expected_weights[model_value],
\* as a numerator over Denominator
probability(count, model_value, previous_week) ==
  (count * weights[ModelEnum[previous_week] + 1][model_value + 1] * Denominator)
    \div expected_patterns[model_value + 1]

\* f"{factor / total * 100:.1f}" in tenths of a percent: the nearest tenth;
\* a value half way between two tenths is printed as either, depending on
\* the rounding of the floating-point quotient (tie_up)
format_1f(factor, total, tie_up) ==
  LET q == (1000 * factor) \div total
      r == (1000 * factor) % total
  IN IF 2 * r < total THEN q
     ELSE IF 2 * r > total THEN q + 1
     ELSE IF tie_up THEN q + 1 ELSE q

\* predictions: which sentence it returns and the patterns it lists, in the
\* order of the sentence (the last one is joined with "and")
predictions(model_count, previous_week, tie_up) ==
  LET patterns == most_common(model_count)
      entry(name, value) == [name |-> name, value |-> value]
  IN IF Len(patterns) = 0 THEN [kind |-> "no_match", entries |-> <<>>]
     ELSE IF Len(patterns) = 1
       THEN [kind |-> "single",
             entries |-> <<entry(patterns[1][1], patterns[1][2])>>]
     ELSE IF previous_week = "unknown"
       THEN [kind |-> "counts",
             entries |-> [n \in DOMAIN patterns |->
                            entry(patterns[n][1], patterns[n][2])]]
     ELSE
       LET counted(v) == {n \in DOMAIN patterns : ModelEnum[patterns[n][1]] = v}
           probabilities ==
             [v \in 0 .. (Len(ModelNames) - 1) |->
                IF counted(v) = {} THEN 0
                ELSE probability(patterns[CHOOSE n \in counted(v) : TRUE][2],
                                 v, previous_week)]
           total == probabilities[0] + probabilities[1] + probabilities[2] +
                    probabilities[3]
           listed == SelectSeq([i \in 1 .. Len(ModelNames) |-> i - 1],
                               LAMBDA v : probabilities[v] > 0)
       IN [kind |-> "weighted",
           entries |-> [n \in DOMAIN listed |->
                          entry(ModelNames[listed[n] + 1],
                                format_1f(probabilities[listed[n]], total,
                                          tie_up[listed[n]]))]]

-----------------------------------------------------------------------------
(* turnips.multi.RangeSet: sorted, disjoint, non-adjacent <<lo, hi>> pairs *)

RangeSet_add(rs, v) ==
  LET covered == \E i \in DOMAIN rs : rs[i][1] <= v /\ v <= rs[i][2]
      left == {i \in DOMAIN rs : rs[i][2] = v - 1}
      right == {i \in DOMAIN rs : rs[i][1] = v + 1}
      lo == IF left = {} THEN v ELSE rs[CHOOSE i \in left : TRUE][1]
      hi == IF right = {} THEN v ELSE rs[CHOOSE i \in right : TRUE][2]
      before == SelectSeq(rs, LAMBDA r : r[2] < v - 1)
      after == SelectSeq(rs, LAMBDA r : r[1] > v + 1)
  IN IF covered THEN rs ELSE before \o <<<<lo, hi>>>> \o after

\* the integers a RangeSet covers
Covered(rs) == UNION {rs[i][1] .. rs[i][2] : i \in DOMAIN rs}

Min(S) == CHOOSE x \in S : \A y \in S : x <= y
Max(S) == CHOOSE x \in S : \A y \in S : x >= y

-----------------------------------------------------------------------------
(* The aggregation (stonkbot/db.py) *)

StatBundle(price_range, name, confidence) ==
  [price_range |-> price_range, name |-> name, confidence |-> confidence]

PriceBundle == [prices |-> <<>>, top_prices_ |-> <<>>]

\* sorted(..., key=lambda x: max(x.price_range), reverse=True): descending,
\* and elements with equal keys keep the order they had
RECURSIVE sorted_reverse(_)
sorted_reverse(seq) ==
  IF seq = <<>> THEN <<>>
  ELSE LET x == Head(seq)
           rest == sorted_reverse(Tail(seq))
           key(b) == Max(DOMAIN b.price_range)
       IN SelectSeq(rest, LAMBDA b : key(b) > key(x)) \o <<x>> \o
          SelectSeq(rest, LAMBDA b : key(b) <= key(x))

\* an ascending sort read backwards: equal keys come out in reverse order
top_prices_ties_reversed(bundle) ==
  LET RECURSIVE ascending(_)
      ascending(seq) ==
        IF seq = <<>> THEN <<>>
        ELSE LET x == Head(seq)
                 rest == ascending(Tail(seq))
                 key(b) == Max(DOMAIN b.price_range)
             IN SelectSeq(rest, LAMBDA b : key(b) < key(x)) \o <<x>> \o
                SelectSeq(rest, LAMBDA b : key(b) >= key(x))
      asc == ascending(bundle.top_prices_)
  IN [n \in DOMAIN asc |-> asc[Len(asc) + 1 - n]]

\* PriceBundle.top_prices
top_prices(bundle) == sorted_reverse(bundle.top_prices_)

\* _top_islands: the entries it prints for the first `length` contributors
_top_islands(top, length) ==
  [n \in 1 .. Min({length, Len(top)}) |->
     [price |-> Max(DOMAIN top[n].price_range),
      confidence |-> top[n].confidence,
      name |-> top[n].name]]

\* `for price in price_counts.keys(): current_stat.prices.add(price)`
RECURSIVE add_prices(_, _)
add_prices(rs, keys) ==
  IF keys = {} THEN rs
  ELSE LET price == CHOOSE p \in keys : TRUE
       IN add_prices(RangeSet_add(rs, price), keys \ {price})

\* `price_type` of one island for one time period
price_type(pattern, timeline, time) ==
  IF PeriodValue(time) \in DOMAIN timeline THEN "fixed"
  ELSE IF pattern # "unknown" THEN "range"
  ELSE "possibility"

\* what the loop of _islands_to_stats reads from one island
island_view(island, t) ==
  [hist |-> histogram(models(island), fixed_prices(island)),
   current |-> is_current_week(island, t),
   pattern |-> current_pattern(island),
   timeline |-> island.timeline,
   name |-> island.name]

\* the body of the inner loop for one island and one time period
add_island(current_stat, view, time) ==
  IF ~view.current \/ time \notin DOMAIN view.hist THEN current_stat
  ELSE [prices |-> add_prices(current_stat.prices, DOMAIN view.hist[time]),
        top_prices_ |->
          Append(current_stat.top_prices_,
                 StatBundle(view.hist[time], view.name,
                            price_type(view.pattern, view.timeline, time)))]

\* the PriceBundle of one time period after the islands from i on
RECURSIVE stat_from(_, _, _, _)
stat_from(current_stat, views, i, time) ==
  IF i > Len(views) THEN current_stat
  ELSE stat_from(add_island(current_stat, views[i], time), views, i + 1, time)

\* the dict _islands_to_stats returns: a key for every time period some
\* current-week island has a histogram for
RECURSIVE island_views(_, _, _)
island_views(islands, i, t) ==
  IF i > Len(islands) THEN <<>>
  ELSE <<island_view(islands[i], t)>> \o island_views(islands, i + 1, t)

_islands_to_stats(islands, t) ==
  LET views == island_views(islands, 1, t)
      times == UNION {IF views[i].current THEN DOMAIN views[i].hist ELSE {}
                        : i \in 1 .. Len(views)}
  IN [time \in times |-> stat_from(PriceBundle, views, 1, time)]

\* WeekData.has_week_data is read by all_stats and meta_stats and defined
\* nowhere in models.py; "Only report islands with non-Sunday data"
has_week_data(d) == \E s \in DOMAIN d.timeline : s >= Monday_AM

-----------------------------------------------------------------------------
(* The requests (stonkbot/db.py) *)

\* the last request, the branch it took and what it computed
Request(op, key, price, time, result, roll, stats) ==
  [op |-> op, key |-> key, price |-> price, time |-> time,
   result |-> result, rollover |-> roll, stats |-> stats,
   board |-> EmptyMap]

\* key[-3:]
LastThree == [k \in Keys |-> IF k = "1001" THEN "001" ELSE "002"]

\* f"Island {key[-3:]}"
default_name(key) == "Island " \o LastThree[key]

\* datetime_to_timeperiod with timestamp.weekday() (Monday = 0) for the day
datetime_to_timeperiod_weekday(timestamp) ==
  LET weekday == timestamp.isoweekday - 1
  IN IF timestamp.hour < 8 THEN -2
     ELSE IF weekday = 0 /\ timestamp.hour >= 12 THEN -3
     ELSE IF timestamp.hour >= 22 THEN -4
     ELSE weekday * 2 + (IF timestamp.hour < 12 THEN 0 ELSE 1)

\* utils.datetime_to_timeperiod: the period, or a negative number for the
\* ValueError raised
datetime_to_timeperiod(timestamp) ==
  LET weekday == timestamp.isoweekday % DaysPerWeek
  IN IF timestamp.hour < 8 THEN -2
     ELSE IF weekday = 0 /\ timestamp.hour >= 12 THEN -3
     ELSE IF timestamp.hour >= 22 THEN -4
     ELSE weekday * 2 + (IF timestamp.hour < 12 THEN 0 ELSE 1)

\* created_at.replace(tzinfo=timezone.utc).astimezone(zone); one tick of
\* offset is 24 / TicksPerDay hours
astimezone(created_at, zone) ==
  LET hours == created_at.hour + UtcOffset(zone) * (24 \div TicksPerDay)
      days == created_at.isoweekday + (hours \div 24)
  IN [isoweekday |-> IF days % DaysPerWeek = 0 THEN 7 ELSE days % DaysPerWeek,
      hour |-> hours % 24]

ErrorName(code) ==
  IF code = -1 THEN "invalid_time"
  ELSE IF code = -2 THEN "too_early"
  ELSE IF code = -3 THEN "daisy_left"
  ELSE "closed"

\* db.log with `shelf[key] = data` run on the way out of the `with` block,
\* as db.set_timezone does: a refused request stores the ledger it loaded
log_stores_on_exit(key, price, time, created_at) ==
  LET normalized == IF time # NoTime THEN normalize(time) ELSE -1
      isNew == shelf[key] = NoLedger
      data == IF isNew THEN WeekData(default_name(key), default_record)
              ELSE shelf[key]
      inferred == datetime_to_timeperiod(astimezone(created_at, timezone(data)))
      period == IF time # NoTime THEN normalized ELSE inferred
      data2 == set_price(data, price, period, now)
      refused == IF time # NoTime THEN ""
                 ELSE IF timezone(data) = NoZone THEN "no_timezone"
                 ELSE IF inferred < 0 THEN ErrorName(inferred) ELSE ""
  IN IF time # NoTime /\ normalized = -1
       THEN /\ last' = Request("log", key, price, -1, "invalid_time", "none", EmptyMap)
            /\ UNCHANGED <<shelf, default_record, now>>
     ELSE IF refused # ""
       THEN /\ last' = Request("log", key, price, -1, refused, "none", EmptyMap)
            /\ shelf' = [shelf EXCEPT ![key] = data]
            /\ UNCHANGED <<default_record, now>>
     ELSE /\ shelf' = [shelf EXCEPT ![key] = data2]
          /\ default_record' = IF isNew THEN data2.record ELSE default_record
          /\ last' = Request("log", key, price, period, "ok",
                             rollover_kind(data, now), EmptyMap)
          /\ UNCHANGED now

\* db.log
log(key, price, time, created_at) ==
  LET normalized == IF time # NoTime THEN normalize(time) ELSE -1
      isNew == shelf[key] = NoLedger
      data == IF isNew THEN WeekData(default_name(key), default_record)
              ELSE shelf[key]
      inferred == datetime_to_timeperiod(astimezone(created_at, timezone(data)))
      period == IF time # NoTime THEN normalized ELSE inferred
      data2 == set_price(data, price, period, now)
  IN IF time # NoTime /\ normalized = -1
       THEN /\ last' = Request("log", key, price, -1, "invalid_time", "none", EmptyMap)
            /\ UNCHANGED <<shelf, default_record, now>>
     ELSE IF time = NoTime /\ timezone(data) = NoZone
       THEN /\ last' = Request("log", key, price, -1, "no_timezone", "none", EmptyMap)
            /\ UNCHANGED <<shelf, default_record, now>>
     ELSE IF time = NoTime /\ inferred < 0
       THEN /\ last' = Request("log", key, price, -1, ErrorName(inferred), "none", EmptyMap)
            /\ UNCHANGED <<shelf, default_record, now>>
     ELSE /\ shelf' = [shelf EXCEPT ![key] = data2]
          \* a ledger built in this request holds the class-level default
          \* Record object itself: writing its record writes the default
          /\ default_record' = IF isNew THEN data2.record ELSE default_record
          /\ last' = Request("log", key, price, period, "ok",
                             rollover_kind(data, now), EmptyMap)
          /\ UNCHANGED now

\* db.all_stats, up to the lookups of the message it builds
all_stats ==
  LET values == [i \in 1 .. Len(KeyOrder) |-> shelf[KeyOrder[i]]]
      islands == SelectSeq(values, LAMBDA d : d # NoLedger /\ has_week_data(d))
      stats == _islands_to_stats(islands, now)
      start == (isoweekday(datetime_now(now, NoZone)) % DaysPerWeek) * 2
      today_slots == IF start # 0 THEN {start, start + 1} ELSE {}
      rest_slots == (start + 2) .. (NumPeriods - 1)
      found(slots) == \A i \in slots : PeriodName(i) \in DOMAIN stats
      \* max(15, *(...)) over no stats is max(15), which raises TypeError
      result == IF ~found(today_slots) THEN "KeyError"
                ELSE IF DOMAIN stats = {} THEN "TypeError"
                ELSE IF ~found(rest_slots) THEN "KeyError"
                ELSE "ok"
      \* five contributors for the slots of today, three for the rest
      board == [time \in {PeriodName(i) : i \in today_slots \cup rest_slots} |->
                  _top_islands(top_prices(stats[time]),
                               IF PeriodValue(time) \in today_slots
                                 THEN TopToday ELSE TopRest)]
  IN /\ last' = [Request("all_stats", "", 0, -1, result, "none", stats)
                   EXCEPT !.board = IF result = "ok" THEN board ELSE EmptyMap]
     /\ UNCHANGED <<shelf, default_record, now, handlers>>

\* db.rename
rename(key, island_name) ==
  LET data == IF shelf[key] = NoLedger
                THEN WeekData(island_name, default_record)
                ELSE [shelf[key] EXCEPT !.name = island_name]
  IN /\ shelf' = [shelf EXCEPT ![key] = data]
     /\ last' = Request("rename", key, 0, -1, "ok", "none", EmptyMap)
     /\ UNCHANGED <<default_record, now, handlers>>

\* db.set_timezone
set_timezone(key, zone_name) ==
  LET isNew == shelf[key] = NoLedger
      data == IF isNew THEN WeekData(default_name(key), default_record)
              ELSE shelf[key]
      success == gettz(zone_name) # NoZone
  IN /\ shelf' = [shelf EXCEPT ![key] = set_tz(data, zone_name)]
     /\ last' = Request("set_timezone", key, 0, -1,
                        IF success THEN "ok" ELSE "unknown_zone", "none", EmptyMap)
     /\ UNCHANGED <<default_record, now, handlers>>

\* the wall clock moves on to the next instant of the model
AdvanceClock ==
  /\ \E t \in Instants : t > now
  /\ now' = Min({t \in Instants : t > now})
  /\ UNCHANGED <<shelf, default_record, last, handlers>>

Start == Request("start", "", 0, -1, "ok", "none", EmptyMap)

\* no command handler in flight
NoHandlers == <<>>

Init ==
  /\ shelf = [k \in Keys |-> NoLedger]
  /\ default_record = DefaultRecord
  /\ now = StartNow
  /\ last = Start
  /\ handlers = NoHandlers

\* one user, every kind of price, time period and zone name
Next ==
  \/ \E key \in SoloKeys, price \in Prices, time \in TimeInputs, created_at \in CreatedAts :
       log(key, price, time, created_at) /\ UNCHANGED handlers
  \/ \E key \in SoloKeys, zone_name \in ZoneInputs : set_timezone(key, zone_name)
  \/ \E key \in SoloKeys, island_name \in IslandNames : rename(key, island_name)
  \/ AdvanceClock

Spec == Init /\ [][Next]_vars

\* predictions as a function of the candidate models and the previous
\* pattern: Counter(model.model_name for model in self.models.models) holds
\* the patterns with at least one model, in the order of first occurrence
InitForecast ==
  /\ shelf = [k \in Keys |-> NoLedger]
  /\ default_record = DefaultRecord
  /\ now = StartNow
  /\ handlers = NoHandlers
  /\ \E counts \in [DOMAIN ModelEnum -> 0 .. MaxCount], order \in ModelOrders,
        previous_week \in DOMAIN ModelEnum \cup {"unknown"} :
       last = [op |-> "models",
               model_count |->
                 SelectSeq([n \in DOMAIN order |-> <<order[n], counts[order[n]]>>],
                           LAMBDA c : c[2] > 0),
               previous_week |-> previous_week,
               narration |-> [kind |-> "none", entries |-> <<>>]]

summary_predictions ==
  /\ last.op = "models"
  /\ \E tie_up \in [0 .. (Len(ModelNames) - 1) -> BOOLEAN] :
       last' = [last EXCEPT
                  !.op = "predictions",
                  !.narration = predictions(last.model_count, last.previous_week,
                                            tie_up)]
  /\ UNCHANGED <<shelf, default_record, now, handlers>>

NextForecast == summary_predictions

SpecForecast == InitForecast /\ [][NextForecast]_vars

\* The event loop of the bot.  A command handler is a coroutine: it runs
\* from the message to its first `await` without another handler running,
\* and db.log, which has no `await`, is inside that stretch; the handler
\* then waits for its replies and reactions to be sent.
Handler(pc, price, period, result, at, seq) ==
  [pc |-> pc, price |-> price, period |-> period, result |-> result,
   at |-> at, seq |-> seq]

InitLoop ==
  /\ shelf = [k \in Keys |-> NoLedger]
  /\ default_record = DefaultRecord
  /\ now = BoardStart
  /\ last = Start
  /\ handlers = [h \in 1 .. MaxRequests |-> Handler("queued", 0, -1, "", 0, 0)]

\* the handler of a log command, from the message to its first `await`
on_log(h, price, time, created_at) ==
  /\ handlers[h].pc = "queued"
  /\ log(LoopKey, price, time, created_at)
  /\ handlers' =
       [handlers EXCEPT ![h] =
          Handler("reacting", price, last'.time, last'.result, now,
                  Cardinality({g \in DOMAIN handlers : handlers[g].pc # "queued"}))]

\* the replies and reactions of a handler have been sent: it ends
react(h) ==
  /\ handlers[h].pc = "reacting"
  /\ handlers' = [handlers EXCEPT ![h].pc = "done"]
  /\ UNCHANGED <<shelf, default_record, now, last>>

NextLoop ==
  \/ \E h \in 1 .. MaxRequests, price \in LoopPrices, time \in LoopTimes,
        created_at \in CreatedAts :
       on_log(h, price, time, created_at)
  \/ \E h \in 1 .. MaxRequests : react(h)
  \/ AdvanceClock

SpecLoop == InitLoop /\ [][NextLoop]_vars

\* datetime_to_timeperiod as a function of the local time of the message
InitInfer ==
  /\ shelf = [k \in Keys |-> NoLedger]
  /\ default_record = DefaultRecord
  /\ now = StartNow
  /\ handlers = NoHandlers
  /\ \E isoweekday_ \in IsoWeekdays, hour \in Hours :
       last = [op |-> "timestamp",
               timestamp |-> [isoweekday |-> isoweekday_, hour |-> hour],
               period |-> -1, result |-> ""]

infer_time ==
  /\ last.op = "timestamp"
  /\ LET time == datetime_to_timeperiod(last.timestamp)
     IN last' = [last EXCEPT !.op = "inferred",
                             !.period = time,
                             !.result = IF time < 0 THEN ErrorName(time) ELSE "ok"]
  /\ UNCHANGED <<shelf, default_record, now, handlers>>

NextInfer == infer_time

SpecInfer == InitInfer /\ [][NextInfer]_vars

\* two users, each logging Monday morning prices
NextTown ==
  \/ \E key \in Keys, price \in TownPrices, time \in TownTimes, created_at \in CreatedAts :
       log(key, price, time, created_at) /\ UNCHANGED handlers
  \/ AdvanceClock

SpecTown == Init /\ [][NextTown]_vars

\* two users and the town-wide board; the process starts Near ticks before
\* the last weekly boundary of the model
InitBoard ==
  /\ shelf = [k \in Keys |-> NoLedger]
  /\ default_record = DefaultRecord
  /\ now = BoardStart
  /\ last = Start
  /\ handlers = NoHandlers

NextBoard ==
  \/ \E key \in Keys, price \in BoardPrices, time \in TownTimes, created_at \in CreatedAts :
       log(key, price, time, created_at) /\ UNCHANGED handlers
  \/ all_stats
  \/ AdvanceClock

SpecBoard == InitBoard /\ [][NextBoard]_vars

-----------------------------------------------------------------------------
(* The week states as the specification defines them, from the weekly       *)
(* boundary: the most recent Sunday 00:00 on the ledger's wall clock        *)

AllPrices == Prices \cup TownPrices \cup BoardPrices
AllTimes == TimeInputs \cup TownTimes

\* the ledger a request on key works on: the stored one, or a new one
Loaded(key) ==
  IF shelf[key] = NoLedger THEN WeekData(default_name(key), default_record)
  ELSE shelf[key]

\* the instant of the most recent weekly boundary at instant t
WeekBoundary(d, t) ==
  LET off == UtcOffset(timezone(d))
  IN (t + off) - ((t + off) % WeekTicks) - off

InCurrentWeek(d, t) == Instant(d.updated) >= WeekBoundary(d, t)

InLastWeek(d, t) ==
  /\ Instant(d.updated) < WeekBoundary(d, t)
  /\ Instant(d.updated) > WeekBoundary(d, t) - WeekTicks

InOlder(d, t) == ~InCurrentWeek(d, t) /\ ~InLastWeek(d, t)

\* a step that is a successful db.log; last' holds its key, price and period
Logged ==
  /\ last'.op = "log"
  /\ last'.result = "ok"
  /\ \E time \in AllTimes, created_at \in CreatedAts :
       log(last'.key, last'.price, time, created_at)

Stored == {key \in Keys : shelf[key] # NoLedger}

-----------------------------------------------------------------------------
(* Claims *)

\* C1: across set_price calls on one ledger record.price never decreases and
\* after each call equals the maximum of the prices > 0 passed so far (0 if
\* none).  Stated per call: the record price after a call is the larger of
\* the price passed and the maximum so far, which is 0 for a new ledger.
C1_RecordIsMaximum ==
  [][LET key == last'.key
         price == last'.price
         period == last'.time
     IN
       Logged =>
         LET so_far == IF shelf[key] = NoLedger THEN 0
                       ELSE shelf[key].record.price
         IN shelf'[key].record.price = Max({so_far, price, 0})]_vars

\* C2: a record belongs to one ledger: logging a price for one key leaves
\* the ledgers of the other keys as they are, and a ledger created for a
\* never-seen key starts with record price 0 whatever was logged before.
C2_RecordOwnedByLedger ==
  [][LET key == last'.key
         price == last'.price
         period == last'.time
     IN
       Logged =>
         /\ \A other \in Keys \ {key} : shelf'[other] = shelf[other]
         /\ shelf[key] = NoLedger => Loaded(key).record.price = 0]_vars

\* C3: set_price with a non-zero price on a ledger in the LastWeek state
\* sets previous_week_pattern to the classification of the timeline as it
\* was before the rollover, and leaves exactly the newly logged slot.
C3_LastWeekSnapshot ==
  [][LET key == last'.key
         price == last'.price
         period == last'.time
     IN
       (Logged /\ price # 0 /\ InLastWeek(Loaded(key), now)) =>
         /\ shelf'[key].previous_week = current_pattern(Loaded(key))
         /\ shelf'[key].timeline = [s \in {period} |-> price]]_vars

\* a LastWeek rollover has just snapshotted a pattern that is not Unknown
C3_Witness ==
  /\ last.op = "log" /\ last.result = "ok"
  /\ last.rollover = "last_week" /\ last.price # 0
  /\ shelf[last.key].previous_week # "unknown"
  /\ shelf[last.key].timeline = [s \in {last.time} |-> last.price]

\* C4: set_price with a non-zero price on a ledger in the Older state
\* leaves exactly the newly logged slot in the timeline and
\* previous_week_pattern as it was.
C4_OlderKeepsPattern ==
  [][LET key == last'.key
         price == last'.price
         period == last'.time
     IN
       (Logged /\ price # 0 /\ InOlder(Loaded(key), now)) =>
         /\ shelf'[key].previous_week = Loaded(key).previous_week
         /\ shelf'[key].timeline = [s \in {period} |-> price]]_vars

\* an Older rollover has just replaced the prices of a ledger whose record
\* dates from more than a week before
C4_Witness ==
  /\ last.op = "log" /\ last.result = "ok"
  /\ last.rollover = "older" /\ last.price # 0
  /\ shelf[last.key].record.price > 0
  /\ shelf[last.key].record.date + DaysPerWeek < today(now)
  /\ shelf[last.key].timeline = [s \in {last.time} |-> last.price]
  /\ Instant(shelf[last.key].updated) = now

\* C5: every ledger's timeline holds only strictly positive prices and at
\* most 14 time periods.
C5_TimelinePositive ==
  \A key \in Stored :
    /\ \A s \in DOMAIN shelf[key].timeline : shelf[key].timeline[s] > 0
    /\ Cardinality(DOMAIN shelf[key].timeline) <= NumPeriods

\* C6: set_price with price 0 on a slot present in the timeline of a
\* current-week ledger removes exactly that slot and changes nothing else
\* but updated.
C6_ClearRemovesOneSlot ==
  [][LET key == last'.key
         period == last'.time
     IN
       (/\ Logged /\ last'.price = 0
        /\ key \in Stored
        /\ period \in DOMAIN shelf[key].timeline
        /\ InCurrentWeek(shelf[key], now)) =>
         /\ shelf'[key].timeline = Del(shelf[key].timeline, period)
         /\ shelf'[key].record = shelf[key].record
         /\ [shelf'[key] EXCEPT !.timeline = shelf[key].timeline,
                                !.updated = shelf[key].updated] = shelf[key]
         /\ Instant(shelf'[key].updated) >= Instant(shelf[key].updated)]_vars

\* C7: is_current_week is true exactly when updated is at or after the most
\* recent weekly boundary, the boundary instant included.
C7_CurrentWeekFromBoundary ==
  \A key \in Stored :
    is_current_week(shelf[key], now) <=> InCurrentWeek(shelf[key], now)

\* the names of the morning time periods
MorningNames ==
  {"Sunday_AM", "Monday_AM", "Tuesday_AM", "Wednesday_AM", "Thursday_AM",
   "Friday_AM", "Saturday_AM"}

\* C8: when set_price establishes a new record, record.is_am is true exactly
\* when the slot is a morning slot; logging 110 at Monday_AM on a new key
\* gives timeline {Monday_AM: 110} and record {110, today, is_am = true}.
C8_RecordHalfOfDay ==
  [][LET key == last'.key
         price == last'.price
         period == last'.time
     IN
       (Logged /\ shelf'[key].record # Loaded(key).record) =>
         /\ shelf'[key].record.price = price
         /\ shelf'[key].record.date = today(now)
         /\ shelf'[key].record.is_am = (PeriodName(period) \in MorningNames)]_vars

\* the ledgers all_stats hands to _islands_to_stats, in order
BoardIslands ==
  SelectSeq([i \in 1 .. Len(KeyOrder) |-> shelf[KeyOrder[i]]],
            LAMBDA d : d # NoLedger /\ has_week_data(d))

\* C9: in the aggregation, the RangeSet of every slot covers exactly the
\* histogram prices of the ledgers in the CurrentWeek state, and the slot's
\* contributors are exactly those ledgers, one StatBundle each; a ledger
\* that is not in CurrentWeek contributes nothing.  (Read per slot of the
\* histograms: a ledger counts for a slot when its histogram has the slot.)
C9_BoardOfCurrentWeek ==
  [][all_stats =>
       \A i \in ForecastPeriods :
         LET time == PeriodName(i)
             bundle == IF time \in DOMAIN last'.stats THEN last'.stats[time]
                       ELSE PriceBundle
             hist(d) == histogram(models(d), fixed_prices(d))
             current == SelectSeq(BoardIslands,
                          LAMBDA d : InCurrentWeek(d, now) /\ time \in DOMAIN hist(d))
         IN /\ Covered(bundle.prices) =
                 UNION {DOMAIN hist(current[n])[time] : n \in DOMAIN current}
            /\ [n \in DOMAIN bundle.top_prices_ |-> bundle.top_prices_[n].name] =
                 [n \in DOMAIN current |-> current[n].name]]_vars

\* C10: the town-wide aggregation with no ledger in the CurrentWeek state
\* completes without failure, and every slot it looks up has an empty
\* RangeSet and no contributors.
C10_EmptyBoard ==
  [][(all_stats /\ \A key \in Stored : ~InCurrentWeek(shelf[key], now)) =>
       /\ last'.result = "ok"
       /\ \A time \in DOMAIN last'.stats :
            /\ last'.stats[time].prices = <<>>
            /\ last'.stats[time].top_prices_ = <<>>]_vars

\* the best price of a contributor: the largest price key of its histogram
best_price(stat) == Max(DOMAIN stat.price_range)

\* C11: within each slot top_prices lists every contributor once, in
\* descending order of best_price, and contributors with equal best_price
\* stay in the order in which they were added.
C11_TopPricesStableDescending ==
  (last.op = "all_stats" /\ last.result = "ok") =>
    \A time \in DOMAIN last.stats :
      LET added == last.stats[time].top_prices_
          top == top_prices(last.stats[time])
      IN /\ Len(top) = Len(added)
         /\ \E pi \in [DOMAIN top -> DOMAIN added] :
              /\ \A m, n \in DOMAIN top : m # n => pi[m] # pi[n]
              /\ \A n \in DOMAIN top : top[n] = added[pi[n]]
              /\ \A m, n \in DOMAIN top :
                   m < n =>
                     \/ best_price(top[m]) > best_price(top[n])
                     \/ /\ best_price(top[m]) = best_price(top[n])
                        /\ pi[m] < pi[n]

\* the board has printed a slot where two different contributors tie on
\* best_price, the one added first in front
C11_Witness ==
  /\ last.op = "all_stats" /\ last.result = "ok"
  /\ \E time \in DOMAIN last.board :
       LET added == last.stats[time].top_prices_
       IN /\ Len(added) = 2
          /\ best_price(added[1]) = best_price(added[2])
          /\ added[1].name # added[2].name
          /\ last.board[time][1].name = added[1].name
          /\ last.board[time][2].name = added[2].name

\* C12: for each contributing ledger and slot, confidence is Fixed iff the
\* slot's price is logged in the timeline or the slot's histogram has
\* exactly one price key; otherwise Range iff all candidate models agree on
\* one pattern; otherwise Possibility.
C12_Confidence ==
  last.op = "all_stats" =>
    \A time \in DOMAIN last.stats :
      \A n \in DOMAIN last.stats[time].top_prices_ :
        LET stat == last.stats[time].top_prices_[n]
            d == shelf[CHOOSE key \in Stored : shelf[key].name = stat.name]
            logged == PeriodValue(time) \in DOMAIN d.timeline
            single == Cardinality(DOMAIN stat.price_range) = 1
            agree == Cardinality({m.model_type : m \in models(d)}) = 1
        IN stat.confidence =
             IF logged \/ single THEN "fixed"
             ELSE IF agree THEN "range"
             ELSE "possibility"

\* C13: set_timezone with a name that does not resolve returns failure and
\* leaves the ledger's timezone, updated, timeline, record and
\* previous_week_pattern unchanged; with a name that resolves it stores the
\* identifier and the absolute instant of updated is the same before and
\* after.
C13_SetTimezone ==
  [][\A key \in Keys, zone_name \in ZoneInputs :
       set_timezone(key, zone_name) =>
         LET before == Loaded(key)
             after == shelf'[key]
         IN IF gettz(zone_name) = NoZone
              THEN /\ last'.result # "ok"
                   /\ after.tz_name = before.tz_name
                   /\ after.updated = before.updated
                   /\ after.timeline = before.timeline
                   /\ after.record = before.record
                   /\ after.previous_week = before.previous_week
              ELSE /\ last'.result = "ok"
                   /\ after.tz_name = zone_name
                   /\ Instant(after.updated) = Instant(before.updated)]_vars

\* a name that does not resolve has just been refused on a ledger with
\* prices whose zone an earlier request set, moving its wall clock
C13_Witness ==
  /\ last.op = "set_timezone" /\ last.result = "unknown_zone"
  /\ shelf[last.key].tz_name = "Etc/GMT-12"
  /\ shelf[last.key].timeline # EmptyMap
  /\ shelf[last.key].updated.utcoffset # 0
  /\ Instant(shelf[last.key].updated) # shelf[last.key].updated.local

\* a step that is a db.log request that was refused
Refused ==
  /\ last'.op = "log"
  /\ last'.result # "ok"
  /\ \E time \in AllTimes, created_at \in CreatedAts :
       log(last'.key, last'.price, time, created_at)

\* C14: a log request that fails (invalid slot name, no explicit slot while
\* the ledger has no timezone, or an inferred time outside the logging
\* window) leaves the store unchanged: no ledger is created for a
\* never-seen key, and an existing ledger keeps its timeline, record,
\* previous_week_pattern and updated, with no rollover performed.
C14_RefusedLogKeepsStore ==
  [][Refused => /\ shelf' = shelf
                /\ last'.rollover = "none"]_vars

\* a log outside the logging window has just been refused on a ledger
\* whose prices are from an earlier week
C14_Witness ==
  /\ last.op = "log"
  /\ last.result \in {"too_early", "daisy_left", "closed"}
  /\ shelf[last.key] # NoLedger
  /\ shelf[last.key].timeline # EmptyMap
  /\ ~InCurrentWeek(shelf[last.key], now)

\* C15: a ledger exists in the store for a key only after a price has been
\* logged for that key: rename and set_timezone on a never-seen key do not
\* create a ledger and leave the store without an entry for that key.
C15_LedgerOnlyByLog ==
  [][\A key \in Keys :
       (shelf[key] = NoLedger /\ shelf'[key] # NoLedger) =>
         (last'.op = "log" /\ last'.key = key /\ last'.result = "ok")]_vars

\* the number of candidate models of a pattern in the last request
CountOf(name) ==
  LET at == {n \in DOMAIN last.model_count : last.model_count[n][1] = name}
  IN IF at = {} THEN 0 ELSE last.model_count[CHOOSE n \in at : TRUE][2]

\* weight(p) = count(p) / N[p] * W[prev][p], times N[1] * N[2] * N[3] * N[4]
WeightOf(name) ==
  LET N(q) == expected_patterns[ModelEnum[q] + 1]
      others == DOMAIN ModelEnum \ {name}
      Product(S) == LET a == CHOOSE x \in S : TRUE
                        b == CHOOSE x \in S \ {a} : TRUE
                        c == CHOOSE x \in S \ {a, b} : TRUE
                    IN N(a) * N(b) * N(c)
  IN CountOf(name) * weights[ModelEnum[last.previous_week] + 1][ModelEnum[name] + 1]
       * Product(others)

\* C16: when the previous-week pattern is known and at least two patterns
\* remain, the percentage reported for each pattern p with count(p) > 0 is
\* weight(p) / sum of weights to one decimal, with weight(p) = count(p) /
\* N[p] * W[prev][p]; patterns with no remaining candidate are not reported;
\* with exactly two surviving patterns the two percentages sum to 100.0
\* within 0.1.
C16_Weighting ==
  (/\ last.op = "predictions"
   /\ last.previous_week # "unknown"
   /\ Len(last.model_count) >= 2) =>
    LET entries == last.narration.entries
        sum == WeightOf("triple") + WeightOf("spike") + WeightOf("decay") +
               WeightOf("bump")
        Abs(x) == IF x < 0 THEN 0 - x ELSE x
    IN /\ {entries[n].name : n \in DOMAIN entries} =
            {name \in DOMAIN ModelEnum : CountOf(name) > 0}
       /\ Len(entries) = Len(last.model_count)
       /\ \A n \in DOMAIN entries :
            2 * Abs(entries[n].value * sum - 1000 * WeightOf(entries[n].name)) <= sum
       /\ Len(entries) = 2 =>
            Abs(entries[1].value + entries[2].value - 1000) <= 1

\* two patterns survive, the previous pattern is known, and the two
\* percentages were both rounded away from a value half way between tenths
C16_Witness ==
  /\ last.op = "predictions"
  /\ last.previous_week # "unknown"
  /\ last.narration.kind = "weighted"
  /\ Len(last.narration.entries) = 2
  /\ last.narration.entries[1].value + last.narration.entries[2].value = 1001

\* C17: whenever predictions narrates more than one pattern (counts when
\* the previous pattern is Unknown, weighted percentages otherwise), the
\* patterns are listed in descending order of their count or probability,
\* so the entry joined with "and" is the least likely one.
C17_NarrationDescending ==
  (last.op = "predictions" /\ Len(last.narration.entries) > 1) =>
    LET entries == last.narration.entries
        rank(name) == IF last.narration.kind = "counts" THEN CountOf(name)
                      ELSE WeightOf(name)
    IN \A m, n \in DOMAIN entries :
         m < n => rank(entries[m].name) >= rank(entries[n].name)

\* C18: each request's load-modify-store on a key runs to completion before
\* any other request's step on the store begins, so when all the log
\* requests of one user issued within one week have completed, the stored
\* timeline has every slot that was logged with a non-zero price and not
\* cleared by a later request.
C18_NoLostUpdate ==
  LET H == DOMAIN handlers
      week(h) == handlers[h].at \div WeekTicks
      kept(h) == /\ handlers[h].result = "ok"
                 /\ handlers[h].price # 0
                 /\ ~\E g \in H : /\ handlers[g].seq > handlers[h].seq
                                   /\ handlers[g].result = "ok"
                                   /\ handlers[g].period = handlers[h].period
                                   /\ handlers[g].price = 0
  IN (/\ H # {}
      /\ \A h \in H : handlers[h].pc = "done"
      /\ \A h, g \in H : week(h) = week(g)) =>
       \A h \in H :
         kept(h) => handlers[h].period \in DOMAIN shelf[LoopKey].timeline

\* C19: prices logged within one week are all kept: when set_price is
\* called with non-zero prices for two different slots at times t1 <= t2 of
\* the same week [Sunday 00:00, next Sunday 00:00) of the ledger's timezone,
\* with no timezone change in between, the timeline has both slots after
\* the second call, also when t1 is the boundary instant itself.  (Stated
\* for the prices a timeline may hold, those above 0.)
C19_SameWeekKeepsBoth ==
  [][LET key == last'.key
         d == shelf[key]
     IN
       (/\ Logged /\ last'.price > 0
        /\ last.op = "log" /\ last.result = "ok" /\ last.key = key
        /\ last.price > 0 /\ last.time # last'.time
        /\ last.time \in DOMAIN d.timeline
        /\ WeekBoundary(d, now) <= Instant(d.updated)
        /\ Instant(d.updated) <= now) =>
         /\ last.time \in DOMAIN shelf'[key].timeline
         /\ shelf'[key].timeline[last.time] = last.price
         /\ last'.time \in DOMAIN shelf'[key].timeline
         /\ last'.rollover = "none"]_vars

\* C20: for every local timestamp, slot inference either fails (hour < 8;
\* Sunday with hour >= 12; hour >= 22) or returns the slot with index
\* weekday * 2 + (0 if hour < 12 else 1), weekday 0 = Sunday; it never
\* returns Sunday_PM (index 1), and it fails in exactly those three cases.
C20_SlotInference ==
  last.op = "inferred" =>
    LET hour == last.timestamp.hour
        weekday == IF last.timestamp.isoweekday = 7 THEN 0
                   ELSE last.timestamp.isoweekday
        fails == hour < 8 \/ (weekday = 0 /\ hour >= 12) \/ hour >= 22
    IN /\ fails <=> last.result # "ok"
       /\ ~fails => last.period = weekday * 2 + (IF hour < 12 THEN 0 ELSE 1)
       /\ last.result = "ok" => last.period \in TimePeriods \ {1}

\* a message sent on Sunday at noon has been refused, not given Sunday_PM
C20_Witness ==
  /\ last.op = "inferred"
  /\ last.timestamp = [isoweekday |-> 7, hour |-> 12]
  /\ last.result = "daisy_left"
  /\ last.period < 0

====
